---- MODULE Spec2Model ----
(***************************************************************************)
(* Request-execution core of the collector/scraper base classes:           *)
(*   AbstractAPICollector  (session configuration, _make_request)          *)
(*   AbstractScraper       (session configuration, _fetch_page,            *)
(*                          _parse_html)                                   *)
(*   utils.logging         (configure_logger, log_and_trace)               *)
(* The remote server, the transport library and the markup engine are the  *)
(* environment: their replies are chosen nondeterministically.             *)
(***************************************************************************)
EXTENDS Integers, Sequences, FiniteSets, TLC

(* ------------------------------ bounds --------------------------------- *)
\* handlers one named logger may accumulate (configure_logger calls per name)
MaxHandlers == 2
\* seconds a call without a timeout is observed while it blocks
MaxWait == 11
\* consecutive log_and_trace calls with identical inputs that are counted
MaxRecords == 2
\* seconds between two observations of the clock while a call blocks
TickSeconds == 5

(* ------------------------- program constants --------------------------- *)
\* timeout=10 passed to session.get
FetchTimeout == 10
\* no timeout argument (timeout=None): the transport waits without bound
NoTimeout == -1

(* --------------------------- value domains ----------------------------- *)
None == "None"
\* an optional string argument: absent, empty, or a non-empty value
CredValues == {None, "", "x"}
\* the api_key argument: absent or a token
ApiKeys == {None, "x"}
\* Python truthiness of an Optional[str]
Truthy(v) == v # None /\ v # ""

CollectorName == "Collector"
ScraperName == "Scraper"
LoggerNames == {CollectorName, ScraperName}

DefaultUserAgent == "Mozilla/5.0 (compatible; AbstractScraper/1.0)"

\* status codes a server may answer with (boundaries of every class)
Statuses == {200, 399, 400, 404, 599, 600}

NoAuth == <<>>
NoHeader == <<>>
NoInstance == [api_key |-> None, username |-> None, password |-> None,
               authorization |-> NoHeader, auth |-> NoAuth, logger |-> None]
NoScraper == [user_agent |-> None, logger |-> None]

(* ----------------------------- exceptions ------------------------------ *)
NoExc == [cls |-> "-", status |-> 0, wraps |-> "-"]
Exc(cls, status) == [cls |-> cls, status |-> status, wraps |-> "-"]
\* what response.json() raises on an undecodable body: requests >= 2.27
\* raises requests.JSONDecodeError (a RequestException), older releases
\* raise json.JSONDecodeError (a ValueError)
JsonErrorClasses == {"requests.JSONDecodeError", "json.JSONDecodeError"}
\* exceptions session.request / session.get raise without a response
TransportExcClasses == {"ConnectionError"}
\* exceptions that are no requests.RequestException
OtherExcClasses == {"Exception"}
\* exceptions the markup engine may raise inside BeautifulSoup(...)
EngineExcClasses == {"ParserError"}
\* the user_agent argument of a scraper
UserAgents == {None, "ua"}

\* except requests.HTTPError
IsHTTPError(e) == e.cls = "HTTPError"
\* except requests.RequestException (HTTPError is a subclass)
IsRequestException(e) ==
    e.cls \in {"HTTPError", "ConnectionError", "Timeout", "requests.JSONDecodeError"}

\* a status check that treats only 4xx as an error
RaisesForStatus_client_only(status) == 400 <= status /\ status < 500

\* Response.raise_for_status: raises HTTPError for 4xx and 5xx
RaisesForStatus(status) == 400 <= status /\ status < 600
\* Response.__bool__ is Response.ok
ResponseTruthy(status) == ~RaisesForStatus(status)

(* ------------------------------- state --------------------------------- *)
VARIABLES
    handlers,    \* logging registry: handlers attached to each named logger
    collector,   \* the AbstractAPICollector instance in use (or NoInstance)
    scraper,     \* the AbstractScraper instance in use (or NoScraper)
    pc,          \* "idle" (nothing called yet) | "waiting" (request in flight) | "done"
    op,          \* operation of the current / last call
    reply,       \* what the server / transport will answer to the request
    waited,      \* seconds elapsed since start_time
    trace,       \* observable events of the current / last call, in order
    result,      \* how the call ended, as seen by the caller
    recArgs,     \* arguments of the current series of log_and_trace calls
    recN         \* log_and_trace calls made in the current series

vars == <<handlers, collector, scraper, pc, op, reply, waited, trace, result,
          recArgs, recN>>

NoReply == [type |-> "-", status |-> 0, body_ok |-> FALSE, exc |-> "-"]
Replies ==
    [type : {"response"}, status : Statuses, body_ok : BOOLEAN, exc : {"-"}]
    \cup [type : {"exception"}, status : {0}, body_ok : {FALSE},
          exc : TransportExcClasses \cup OtherExcClasses]
    \cup [type : {"silent"}, status : {0}, body_ok : {FALSE}, exc : {"-"}]

\* session.get gave up waiting
TimeoutReply == [type |-> "exception", status |-> 0, body_ok |-> FALSE, exc |-> "Timeout"]
\* what the markup engine did with the text handed to _parse_html
EngineReply(engine) ==
    [type |-> IF engine = "ok" THEN "parsed" ELSE "exception",
     status |-> 0, body_ok |-> FALSE, exc |-> IF engine = "ok" THEN "-" ELSE engine]

NoResult == [kind |-> "none", value |-> "-", exc |-> NoExc]
Returned(v) == [kind |-> "returned", value |-> v, exc |-> NoExc]
Raised(e) == [kind |-> "raised", value |-> "-", exc |-> e]

(* ------------------------------ logging -------------------------------- *)
Event(ev, level, name, text, opname, elapsed, status, e) ==
    [ev |-> ev, level |-> level, logger |-> name, text |-> text,
     op |-> opname, elapsed |-> elapsed, status |-> status, exc |-> e]

RequestEvent == Event("request", "-", "-", "-", "-", 0, 0, NoExc)
ReturnEvent == Event("return", "-", "-", "-", "-", 0, 0, NoExc)
RaiseEvent(e) == Event("raise", "-", "-", "-", "-", 0, 0, e)

\* logger.info / logger.error: one LogRecord, handed to every handler of the
\* logger; each StreamHandler writes one line.  (The logger's level is INFO,
\* so both levels pass.)
Log(tr, h, name, level, text, opname, elapsed, status, e) ==
    tr \o <<Event("record", level, name, text, opname, elapsed, status, e)>>
       \o [i \in 1..h[name] |->
              Event("line", level, name, text, opname, elapsed, status, e)]

\* log_and_trace(logger, method_name, start_time, response)
\* status = 0 stands for response=None
log_and_trace(tr, h, name, method_name, elapsed, status) ==
    IF status # 0 /\ ResponseTruthy(status)
    THEN Log(tr, h, name, "INFO", "completed in, with status code",
             method_name, elapsed, status, NoExc)
    ELSE Log(tr, h, name, "INFO", "completed in",
             method_name, elapsed, 0, NoExc)

\* configure_logger(name): getLogger(name), setLevel(INFO), addHandler(new)
configure_logger(h, name) == [h EXCEPT ![name] = @ + 1]

(* ------------------------- session configuration ----------------------- *)
\* basic auth attached as soon as either credential is given
configure_session_either(api_key, username, password) ==
    LET authorization == IF Truthy(api_key) THEN <<"Bearer", api_key>> ELSE NoHeader
        auth == IF Truthy(username) \/ Truthy(password)
                THEN <<username, password>> ELSE NoAuth
    IN  [authorization |-> authorization, auth |-> auth]

\* AbstractAPICollector._configure_session
configure_session(api_key, username, password) ==
    LET authorization == IF Truthy(api_key) THEN <<"Bearer", api_key>> ELSE NoHeader
        auth == IF Truthy(username) /\ Truthy(password)
                THEN <<username, password>> ELSE NoAuth
    IN  [authorization |-> authorization, auth |-> auth]

\* AbstractScraper._configure_session (User-Agent header)
scraper_user_agent(user_agent) ==
    IF Truthy(user_agent) THEN user_agent ELSE DefaultUserAgent

Init ==
    /\ handlers = [n \in LoggerNames |-> 0]
    /\ collector = NoInstance
    /\ scraper = NoScraper
    /\ pc = "idle"
    /\ op = "-"
    /\ reply = NoReply
    /\ waited = 0
    /\ trace = <<>>
    /\ result = NoResult
    /\ recArgs = <<>>
    /\ recN = 0

\* an operation that returns without a request or a log call: the
\* observation of the previous operation is replaced by its own
Observe(o) ==
    /\ pc' = "done"
    /\ op' = o
    /\ reply' = NoReply
    /\ waited' = 0
    /\ trace' = <<ReturnEvent>>
    /\ result' = Returned("None")
    /\ recArgs' = <<>>
    /\ recN' = 0

\* AbstractAPICollector.__init__
NewCollector(api_key, username, password) ==
    /\ pc # "waiting"
    /\ handlers[CollectorName] < MaxHandlers
    /\ LET s == configure_session(api_key, username, password)
       IN  collector' = [api_key |-> api_key, username |-> username,
                         password |-> password,
                         authorization |-> s.authorization, auth |-> s.auth,
                         logger |-> CollectorName]
    /\ handlers' = configure_logger(handlers, CollectorName)
    /\ Observe("__init__")
    /\ UNCHANGED scraper

\* AbstractScraper.__init__
NewScraper(user_agent) ==
    /\ pc # "waiting"
    /\ handlers[ScraperName] < MaxHandlers
    /\ scraper' = [user_agent |-> scraper_user_agent(user_agent),
                   logger |-> ScraperName]
    /\ handlers' = configure_logger(handlers, ScraperName)
    /\ Observe("__init__")
    /\ UNCHANGED collector

\* configure_logger called directly by client code
ConfigureLogger(name) ==
    /\ pc # "waiting"
    /\ handlers[name] < MaxHandlers
    /\ handlers' = configure_logger(handlers, name)
    /\ Observe("configure_logger")
    /\ UNCHANGED <<collector, scraper>>

\* session.get issued without its timeout argument
RequestTimeout_none(o) == NoTimeout

\* the timeout the transport call of an operation is issued with:
\* session.get(url, params=params, timeout=10) in _fetch_page,
\* session.request(method, url, params=params, json=data) in _make_request
RequestTimeout(o) == IF o = "_fetch_page" THEN FetchTimeout ELSE NoTimeout

(* ------------------------ _make_request (dispatch) --------------------- *)
Outcome(tr, res) == [trace |-> tr, result |-> res]

\* the catch-all clause logs and then swallows the exception (returns None)
make_request_except_swallow(tr, h, name, e) ==
    LET text == IF IsHTTPError(e) THEN "HTTP error occurred"
                ELSE IF IsRequestException(e) THEN "Request error occurred"
                ELSE "Unexpected error"
        logged == Log(tr, h, name, "ERROR", text, "-", 0, 0, e)
    IN  IF IsRequestException(e)
        THEN Outcome(logged \o <<RaiseEvent(e)>>, Raised(e))
        ELSE Outcome(logged \o <<ReturnEvent>>, Returned("None"))

\* the except clauses of _make_request: log at error level, re-raise
make_request_except(tr, h, name, e) ==
    LET text == IF IsHTTPError(e) THEN "HTTP error occurred"
                ELSE IF IsRequestException(e) THEN "Request error occurred"
                ELSE "Unexpected error"
    IN  Outcome(Log(tr, h, name, "ERROR", text, "-", 0, 0, e) \o <<RaiseEvent(e)>>,
                Raised(e))

\* the try block of _make_request once session.request has come back with
\* rep after elapsed seconds; jsonCls is the class response.json() raises
make_request(tr, h, name, rep, elapsed, jsonCls) ==
    IF rep.type = "exception"
    THEN make_request_except(tr, h, name, Exc(rep.exc, 0))
    ELSE IF RaisesForStatus(rep.status)
    THEN make_request_except(tr, h, name, Exc("HTTPError", rep.status))
    ELSE LET tr1 == log_and_trace(tr, h, name, "_make_request", elapsed, rep.status)
         IN  IF rep.body_ok
             THEN Outcome(tr1 \o <<ReturnEvent>>, Returned("json"))
             ELSE make_request_except(tr1, h, name, Exc(jsonCls, 0))

\* _make_request up to the blocking session.request(method, url, ...) call
MakeRequestStart(rep) ==
    /\ pc # "waiting"
    /\ collector # NoInstance
    /\ pc' = "waiting"
    /\ op' = "_make_request"
    /\ reply' = rep
    /\ waited' = 0
    /\ trace' = <<RequestEvent>>
    /\ result' = NoResult
    /\ recArgs' = <<>>
    /\ recN' = 0
    /\ UNCHANGED <<handlers, collector, scraper>>

\* session.request comes back (no timeout argument: only when the server or
\* the transport answers) and the rest of _make_request runs
MakeRequestFinish(jsonCls) ==
    /\ pc = "waiting"
    /\ op = "_make_request"
    /\ reply.type # "silent"
    /\ LET o == make_request(trace, handlers, collector.logger, reply, waited, jsonCls)
       IN  /\ trace' = o.trace
           /\ result' = o.result
    /\ pc' = "done"
    /\ UNCHANGED <<handlers, collector, scraper, op, reply, waited, recArgs, recN>>

(* --------------------------- _fetch_page (fetch) ----------------------- *)
\* _fetch_page given the catch-all clause of _make_request
fetch_page_except_catch_all(tr, h, name, e) ==
    LET text == IF IsHTTPError(e) THEN "HTTP error occurred while fetching page"
                ELSE IF IsRequestException(e)
                THEN "Request error occurred while fetching page"
                ELSE "Unexpected error"
    IN  Outcome(Log(tr, h, name, "ERROR", text, "-", 0, 0, e) \o <<RaiseEvent(e)>>,
                Raised(e))

\* the except clauses of _fetch_page: no catch-all clause
fetch_page_except(tr, h, name, e) ==
    IF IsHTTPError(e)
    THEN Outcome(Log(tr, h, name, "ERROR", "HTTP error occurred while fetching page",
                     "-", 0, 0, e) \o <<RaiseEvent(e)>>, Raised(e))
    ELSE IF IsRequestException(e)
    THEN Outcome(Log(tr, h, name, "ERROR", "Request error occurred while fetching page",
                     "-", 0, 0, e) \o <<RaiseEvent(e)>>, Raised(e))
    ELSE Outcome(tr \o <<RaiseEvent(e)>>, Raised(e))

\* the try block of _fetch_page once session.get has come back with rep
fetch_page(tr, h, name, rep, elapsed) ==
    IF rep.type = "exception"
    THEN fetch_page_except(tr, h, name, Exc(rep.exc, 0))
    ELSE IF RaisesForStatus(rep.status)
    THEN fetch_page_except(tr, h, name, Exc("HTTPError", rep.status))
    ELSE Outcome(log_and_trace(tr, h, name, "_fetch_page", elapsed, rep.status)
                    \o <<ReturnEvent>>,
                 Returned("text"))

\* _fetch_page up to the blocking session.get(url, params, timeout=10) call
FetchPageStart(rep) ==
    /\ pc # "waiting"
    /\ scraper # NoScraper
    /\ pc' = "waiting"
    /\ op' = "_fetch_page"
    /\ reply' = rep
    /\ waited' = 0
    /\ trace' = <<RequestEvent>>
    /\ result' = NoResult
    /\ recArgs' = <<>>
    /\ recN' = 0
    /\ UNCHANGED <<handlers, collector, scraper>>

\* session.get comes back before the timeout and the rest of _fetch_page runs
FetchPageFinish ==
    /\ pc = "waiting"
    /\ op = "_fetch_page"
    /\ reply.type # "silent"
    /\ RequestTimeout(op) # NoTimeout => waited < RequestTimeout(op)
    /\ LET o == fetch_page(trace, handlers, scraper.logger, reply, waited)
       IN  /\ trace' = o.trace
           /\ result' = o.result
    /\ pc' = "done"
    /\ UNCHANGED <<handlers, collector, scraper, op, reply, waited, recArgs, recN>>

\* nothing arrived within the timeout: session.get raises requests.Timeout
\* and the rest of _fetch_page runs
FetchPageTimeout ==
    /\ pc = "waiting"
    /\ op = "_fetch_page"
    /\ RequestTimeout(op) # NoTimeout
    /\ waited = RequestTimeout(op)
    /\ reply' = TimeoutReply
    /\ LET o == fetch_page(trace, handlers, scraper.logger, TimeoutReply, waited)
       IN  /\ trace' = o.trace
           /\ result' = o.result
    /\ pc' = "done"
    /\ UNCHANGED <<handlers, collector, scraper, op, waited, recArgs, recN>>

\* how long the blocked call is observed: up to its timeout if it has one
TimeLimit(o) == IF RequestTimeout(o) = NoTimeout THEN MaxWait ELSE RequestTimeout(o)

Min(a, b) == IF a <= b THEN a ELSE b

\* time passes while the calling thread blocks in the transport
Tick ==
    /\ pc = "waiting"
    /\ waited < TimeLimit(op)
    /\ waited' = Min(waited + TickSeconds, TimeLimit(op))
    /\ UNCHANGED <<handlers, collector, scraper, pc, op, reply, trace, result,
                   recArgs, recN>>

(* ------------------------------ _parse_html ---------------------------- *)
\* the except clause logs and re-raises the engine's exception unwrapped
parse_html_reraise(tr, h, name, engine) ==
    IF engine = "ok"
    THEN Outcome(tr \o <<ReturnEvent>>, Returned("soup"))
    ELSE LET err == Exc(engine, 0)
         IN  Outcome(Log(tr, h, name, "ERROR", "Error while parsing HTML",
                         "-", 0, 0, err) \o <<RaiseEvent(err)>>,
                     Raised(err))

\* engine is "ok" or the class of the exception BeautifulSoup raises
parse_html(tr, h, name, engine) ==
    IF engine = "ok"
    THEN Outcome(tr \o <<ReturnEvent>>, Returned("soup"))
    ELSE LET err == Exc(engine, 0)
             wrapped == [cls |-> "ValueError", status |-> 0, wraps |-> engine]
         IN  Outcome(Log(tr, h, name, "ERROR", "Error while parsing HTML",
                         "-", 0, 0, err) \o <<RaiseEvent(wrapped)>>,
                     Raised(wrapped))

ParseHtml(engine) ==
    /\ pc # "waiting"
    /\ scraper # NoScraper
    /\ LET o == parse_html(<<>>, handlers, scraper.logger, engine)
       IN  /\ trace' = o.trace
           /\ result' = o.result
    /\ pc' = "done"
    /\ op' = "_parse_html"
    /\ reply' = EngineReply(engine)
    /\ waited' = 0
    /\ recArgs' = <<>>
    /\ recN' = 0
    /\ UNCHANGED <<handlers, collector, scraper>>

(* ---------------------- log_and_trace called directly ------------------ *)
RecordMethods == {"_make_request"}
\* the response argument: 0 is response=None
RecordStatuses == {0, 200, 404}
\* elapsed seconds computed from time.time() - start_time
RecordElapsed == {0, 1}

\* log_and_trace on a logger obtained from configure_logger(name); calls with
\* the arguments of the running series (the same start_time among them, so
\* the elapsed time does not decrease) extend it, other arguments start anew
Record(name, method_name, status, elapsed) ==
    /\ pc # "waiting"
    /\ handlers[name] >= 1
    /\ LET args == <<name, method_name, status>>
           cont == op = "log_and_trace" /\ recArgs = args
       IN  /\ cont => recN < MaxRecords /\ trace[Len(trace)].elapsed <= elapsed
           /\ trace' = log_and_trace(IF cont THEN trace ELSE <<>>, handlers,
                                     name, method_name, elapsed, status)
           /\ recN' = IF cont THEN recN + 1 ELSE 1
           /\ recArgs' = args
    /\ pc' = "done"
    /\ op' = "log_and_trace"
    /\ reply' = NoReply
    /\ waited' = 0
    /\ result' = Returned("None")
    /\ UNCHANGED <<handlers, collector, scraper>>

Next ==
    \/ \E k \in ApiKeys, u \in CredValues, p \in CredValues : NewCollector(k, u, p)
    \/ \E ua \in UserAgents : NewScraper(ua)
    \/ \E n \in LoggerNames : ConfigureLogger(n)
    \/ \E rep \in Replies : MakeRequestStart(rep)
    \/ \E c \in JsonErrorClasses : MakeRequestFinish(c)
    \/ \E rep \in Replies : FetchPageStart(rep)
    \/ FetchPageFinish
    \/ FetchPageTimeout
    \/ Tick
    \/ \E e \in {"ok"} \cup EngineExcClasses : ParseHtml(e)
    \/ \E n \in LoggerNames, m \in RecordMethods, s \in RecordStatuses,
          el \in RecordElapsed : Record(n, m, s, el)

Spec == Init /\ [][Next]_vars

\* the clock advances and a timeout that is due fires: the interpreter keeps
\* running and the socket timeout is enforced by the transport
FairSpec == Spec /\ WF_vars(Tick) /\ WF_vars(FetchPageTimeout)

(* ------------------------- reading the trace --------------------------- *)
\* positions of the events of one kind and level in the current trace
Positions(ev, level) ==
    {i \in DOMAIN trace : trace[i].ev = ev /\ trace[i].level = level}
RequestsIssued == Cardinality(Positions("request", "-"))
CallDone(o) == pc = "done" /\ op = o
Dispatch == "_make_request"
Fetch == "_fetch_page"
\* a log line without its elapsed time
Shape(l) == [l EXCEPT !.elapsed = 0]

(* ------------------------------- C1 ------------------------------------ *)
\* C1: every finished call of _make_request and of _fetch_page has made
\* exactly one log_and_trace record (the INFO "... completed in ..." event),
\* whether it returned or raised.
C1_OneEventPerCall ==
    (CallDone(Dispatch) \/ CallDone(Fetch))
        => Cardinality(Positions("record", "INFO")) = 1

(* ------------------------------- C2 ------------------------------------ *)
\* C2: a constructed collector's session carries at most one authentication
\* mode: never both the Authorization: Bearer header and basic auth.
C2_AuthExclusive ==
    collector # NoInstance
        => ~(collector.authorization # NoHeader /\ collector.auth # NoAuth)

(* ------------------------------- C3 ------------------------------------ *)
\* C3: construction succeeds for every combination of arguments, and basic
\* auth is set on the session if and only if both username and password are
\* non-empty (it is then the pair of the two); partial credentials set none.
C3_PartialCredentialsInert ==
    collector # NoInstance
        => LET both == /\ collector.username \notin {None, ""}
                       /\ collector.password \notin {None, ""}
           IN  /\ both => collector.auth = <<collector.username, collector.password>>
               /\ ~both => collector.auth = NoAuth

C3_Witness ==
    /\ collector # NoInstance
    /\ collector.username = "x"
    /\ collector.password = None
    /\ collector.api_key = "x"
    /\ collector.auth = NoAuth

(* ------------------------------- C4 ------------------------------------ *)
\* C4: a call whose transport request came back with a response raises
\* HTTPError (and returns nothing) when the status is in [400,599], and
\* returns (the parsed body from _make_request given a valid body, the text
\* from _fetch_page) without raising when the status is in [200,399].
C4_StatusClassification ==
    \A o \in {Dispatch, Fetch} :
        (CallDone(o) /\ reply.type = "response")
            => /\ (400 <= reply.status /\ reply.status <= 599)
                    => /\ result.kind = "raised"
                       /\ result.exc.cls = "HTTPError"
                       /\ result.exc.status = reply.status
                       /\ Positions("return", "-") = {}
               /\ (200 <= reply.status /\ reply.status <= 399
                        /\ (o = Dispatch => reply.body_ok))
                    => /\ result = Returned(IF o = Dispatch THEN "json" ELSE "text")
                       /\ Positions("raise", "-") = {}

C4_Witness ==
    /\ CallDone(Fetch)
    /\ reply.type = "response"
    /\ reply.status = 599
    /\ result.kind = "raised"

(* ------------------------------- C5 ------------------------------------ *)
\* the class of the exception that occurred inside the try block
OccurredClasses ==
    IF reply.type = "exception" THEN {reply.exc}
    ELSE IF 400 <= reply.status /\ reply.status <= 599 THEN {"HTTPError"}
    ELSE JsonErrorClasses

\* C5: a call that ended in a classified failure (any exception for
\* _make_request, an HTTPError or other RequestException for _fetch_page)
\* issued exactly one transport request, emitted exactly one ERROR log line,
\* that line carries the exception, it precedes the raise, and the caller
\* sees the exception that occurred.
C5_FailFast ==
    \A o \in {Dispatch, Fetch} :
        (CallDone(o) /\ result.kind = "raised"
                /\ (o = Fetch => IsRequestException(result.exc)))
            => /\ RequestsIssued = 1
               /\ Cardinality(Positions("line", "ERROR")) = 1
               /\ \A i \in Positions("line", "ERROR") :
                     /\ trace[i].exc = result.exc
                     /\ \A j \in Positions("raise", "-") : i < j
               /\ result.exc.cls \in OccurredClasses
               /\ trace[Len(trace)] = RaiseEvent(result.exc)

(* ------------------------------- C6 ------------------------------------ *)
\* C6: after any number of configure_logger calls for a name, N calls of
\* log_and_trace with the same arguments have emitted exactly N log lines,
\* all identical up to the elapsed time.
C6_RepeatSafe ==
    CallDone("log_and_trace")
        => /\ Cardinality(Positions("line", "INFO")) = recN
           /\ \A i, j \in Positions("line", "INFO") :
                 Shape(trace[i]) = Shape(trace[j])

(* ------------------------------- C7 ------------------------------------ *)
\* C7 (as stated): _parse_html never logs and never issues a request, and a
\* failure of the markup engine surfaces as a ValueError wrapping the cause.
C7_ParsePure ==
    CallDone("_parse_html")
        => /\ RequestsIssued = 0
           /\ \A i \in DOMAIN trace : trace[i].ev \notin {"record", "line"}
           /\ reply.type = "exception"
                => /\ result.kind = "raised"
                   /\ result.exc.cls = "ValueError"
                   /\ result.exc.wraps = reply.exc

\* C7 (amended): _parse_html never issues a request; when it returns it has
\* logged nothing; when the markup engine raises it calls logger.error once
\* with the cause ("Error while parsing HTML: ..."), which every handler
\* registered on the scraper's logger writes as one line, before raising a
\* ValueError that wraps the cause.
C7_ParseLogsThenWraps ==
    CallDone("_parse_html")
        => /\ RequestsIssued = 0
           /\ reply.type = "parsed"
                => /\ result = Returned("soup")
                   /\ \A i \in DOMAIN trace : trace[i].ev \notin {"record", "line"}
           /\ reply.type = "exception"
                => /\ result.kind = "raised"
                   /\ result.exc.cls = "ValueError"
                   /\ result.exc.wraps = reply.exc
                   /\ Cardinality(Positions("record", "ERROR")) = 1
                   /\ Positions("record", "INFO") = {}
                   /\ \A i \in Positions("record", "ERROR") :
                         /\ trace[i].text = "Error while parsing HTML"
                         /\ trace[i].exc.cls = reply.exc
                         /\ \A j \in Positions("raise", "-") : i < j
                   /\ Cardinality(Positions("line", "ERROR")) = handlers[scraper.logger]

C7_Witness ==
    /\ CallDone("_parse_html")
    /\ reply.type = "exception"
    /\ result.kind = "raised"
    /\ Positions("line", "ERROR") # {}

(* ------------------------------- C8 ------------------------------------ *)
\* C8: a _fetch_page call waiting on a server that never responds always
\* ends by raising a transport error (the timeout), whereas a _make_request
\* call waiting on such a server stays blocked at every step.
C8_TimeoutAsymmetry ==
    /\ (pc = "waiting" /\ op = Fetch /\ reply.type = "silent")
          ~> (/\ CallDone(Fetch)
              /\ result.kind = "raised"
              /\ result.exc.cls = "Timeout"
              /\ IsRequestException(result.exc)
              /\ ~IsHTTPError(result.exc))
    /\ [][(pc = "waiting" /\ op = Dispatch /\ reply.type = "silent")
            => (pc' = "waiting" /\ op' = Dispatch /\ result' = NoResult)]_vars

C8_Witness ==
    /\ CallDone(Fetch)
    /\ result.kind = "raised"
    /\ result.exc.cls = "Timeout"
    /\ waited = FetchTimeout

(* ------------------------------- C9 ------------------------------------ *)
\* a _make_request call got a response with status < 400 and an invalid body
BodyParseFailure ==
    /\ CallDone(Dispatch)
    /\ reply.type = "response"
    /\ reply.status < 400
    /\ ~reply.body_ok

\* C9 (as stated): a body-parse failure of _make_request is raised and is
\* logged by the catch-all clause ("Unexpected error"), not by the HTTPError
\* or RequestException clause.
C9_ParseFailureUnexpected ==
    BodyParseFailure
        => /\ result.kind = "raised"
           /\ Positions("record", "ERROR") # {}
           /\ \A i \in Positions("record", "ERROR") :
                 trace[i].text = "Unexpected error"

\* C9 (amended): a body-parse failure of _make_request is raised after one
\* logger.error call; the clause is the catch-all ("Unexpected error") when
\* response.json() raises a plain ValueError and the RequestException clause
\* ("Request error occurred") when it raises requests' JSONDecodeError; it is
\* never the HTTPError clause.
C9_ParseFailureClassified ==
    BodyParseFailure
        => /\ result.kind = "raised"
           /\ result.exc.cls \in JsonErrorClasses
           /\ Cardinality(Positions("record", "ERROR")) = 1
           /\ \A i \in Positions("record", "ERROR") :
                 /\ trace[i].exc = result.exc
                 /\ trace[i].text = IF result.exc.cls = "json.JSONDecodeError"
                                    THEN "Unexpected error"
                                    ELSE "Request error occurred"
                 /\ \A j \in Positions("raise", "-") : i < j

C9_Witness ==
    /\ BodyParseFailure
    /\ result.kind = "raised"
    /\ result.exc.cls = "requests.JSONDecodeError"

(* ------------------------------- C10 ----------------------------------- *)
\* C10: an exception that is neither an HTTPError nor another
\* RequestException leaves _fetch_page with its original class and without
\* any ERROR record, whereas it leaves _make_request with its original class
\* after exactly one logger.error call of the catch-all clause.
C10_AsymmetricHandling ==
    \A o \in {Dispatch, Fetch} :
        (CallDone(o) /\ reply.type = "exception" /\ reply.exc \in OtherExcClasses)
            => /\ result = Raised(Exc(reply.exc, 0))
               /\ o = Fetch
                    => /\ Positions("record", "ERROR") = {}
                       /\ Positions("line", "ERROR") = {}
               /\ o = Dispatch
                    => /\ Cardinality(Positions("record", "ERROR")) = 1
                       /\ \A i \in Positions("record", "ERROR") :
                             /\ trace[i].text = "Unexpected error"
                             /\ trace[i].exc = result.exc
                             /\ \A j \in Positions("raise", "-") : i < j

C10_Witness ==
    /\ CallDone(Fetch)
    /\ reply.type = "exception"
    /\ reply.exc \in OtherExcClasses
    /\ result.kind = "raised"
    /\ Positions("record", "ERROR") = {}
====
